---- MODULE Spec2Model ----
(***************************************************************************)
(* Model of src/dev.js: the DevToolsProtection detector/responder loop.    *)
(*                                                                         *)
(* The page runs one event loop.  Every timer callback and every event     *)
(* handler is one atomic action.  Methods of the class are operators from  *)
(* a record of the object's fields and the DOM it writes to the record     *)
(* after the call; a TypeError raised by a write through a null            *)
(* document.body is the field threw, which ends the callback.              *)
(* Timers are kept as the milliseconds left until they are due; Advance    *)
(* lets time pass up to the next due timer, and timers due at the same     *)
(* instant run in any order.  The 100ms console-spam interval and the      *)
(* 5000ms timeout of handleDevToolsDetected, whose body is empty, may run  *)
(* at any moment while they are pending.                                   *)
(*                                                                         *)
(* Spec is the page from the moment the script is loaded, in any phase of  *)
(* the document; SpecBody is the page whose script is loaded when          *)
(* document.body exists; SpecLive is the loaded page with the fairness of  *)
(* the event loop.  SpecProbe adds the helper names on window to it;       *)
(* SpecMarkers and SpecToast follow the test elements of the mutation      *)
(* probe and the toast of showWarning, whose timers and nodes no other     *)
(* part of the class reads or writes.                                      *)
(***************************************************************************)
EXTENDS Integers, FiniteSets, Sequences, TLC

\* ---------------------------------------------------------------- constants
LoadThreshold == 160
HighThreshold == 150
LowThreshold == 100
RecheckThreshold == 100
SizeInterval == 500
ConsoleInterval == 1000
TimingInterval == 2000
RecheckDelay == 1000
InspectionInterval == 1500
CleanupDelay == 10000
WarningDuration == 4000
WarningFadeOut == 400

\* bound on the number of pending (empty-bodied) 5000ms timeouts
MaxRedirect == 1

\* outer-minus-inner window gaps the environment may present: values on
\* both sides of each threshold for the height, one per band for the width
HeightValues == {99, 100, 150, 151, 161}
WidthValues == {0, 100, 151}

\* keys and modifier states of the keyboard events the page may receive
Keys == {"F12", "I", "J", "C", "K", "E", "S", "u", "U", "i", "a"}
KeyEvents ==
  [key : Keys, ctrlKey : BOOLEAN, shiftKey : BOOLEAN,
   metaKey : BOOLEAN, altKey : BOOLEAN]
\* the keyboard events the user is taken to type: the handler tells them
\* apart only by keydownBlocked, which the claims test on all of KeyEvents
KeyEv(k, c, s, m, a) ==
  [key |-> k, ctrlKey |-> c, shiftKey |-> s, metaKey |-> m, altKey |-> a]
TypedKeys ==
  {KeyEv("F12", FALSE, FALSE, FALSE, FALSE),
   KeyEv("I", TRUE, TRUE, FALSE, FALSE),
   KeyEv("u", TRUE, FALSE, FALSE, FALSE),
   KeyEv("I", FALSE, FALSE, TRUE, TRUE),
   KeyEv("U", TRUE, FALSE, FALSE, FALSE),
   KeyEv("a", FALSE, FALSE, FALSE, FALSE)}
MouseEvents == [button : {0, 1}, ctrlKey : BOOLEAN]

VARIABLES
  heightDiff,          \* window.outerHeight - window.innerHeight
  widthDiff,           \* window.outerWidth - window.innerWidth
  consoleOpened,       \* the console reads the getter of a logged object
  debuggerPaused,      \* a debugger statement takes more than 100ms
  docPhase,            \* "head": loading, document.body is null;
                       \* "body": loading, body exists; "ready": loaded
  installed,           \* the constructor returned: listeners and intervals
  advancedListeners,   \* setupAdvancedListeners has run
  comprehensiveStyles, \* style nodes with id comprehensive-protection
  isDevToolsOpen,
  protectionActive,
  consoleSpamInterval, \* 0: null/undefined, 1: a timer handle
  spamTasks,           \* running console-spam intervals
  overlays,            \* nodes with id devtools-overlay
  activeStyles,        \* style nodes with id active-protection-style
  bodyClass,           \* body.classList has protection-active
  bodyFilter,
  bodyOpacity,
  bodyPointerEvents,
  sizeT,               \* ms until the detectByWindowSize interval is due
  consoleT,            \* ms until the detectByConsole interval is due
  timingT,             \* ms until the detectByTiming interval is due
  rechecks,            \* pending checkIfReallyClosed timeouts
  redirects,           \* pending 5000ms timeouts of handleDevToolsDetected
  helperGlobals,       \* one of $, $$, $x, inspect, monitor, debug is a
                       \* function on window
  inspectT,            \* ms until the detectElementInspection interval is due
  markerNodes,         \* hidden test elements in the body, each observed
  markerTimers,        \* pending clean-up timeouts of those elements
  warningShown,
  toastNodes,          \* warning toasts of showWarning in the body
  animationStyles,     \* slideInRight style nodes in the head
  hideTimers,          \* pending 4000ms timeouts of showWarning
  removeTimers         \* pending 400ms timeouts removing a toast

envVars == <<heightDiff, widthDiff, consoleOpened, debuggerPaused, docPhase>>
setupVars == <<installed, advancedListeners, comprehensiveStyles>>
flagVars == <<isDevToolsOpen, protectionActive>>
spamVars == <<consoleSpamInterval, spamTasks>>
domVars ==
  <<overlays, activeStyles, bodyClass, bodyFilter, bodyOpacity,
    bodyPointerEvents>>
intervalVars == <<sizeT, consoleT, timingT>>
timerVars == <<rechecks, redirects>>
objVars == <<flagVars, spamVars, domVars, timerVars>>
markerVars == <<inspectT, markerNodes, markerTimers>>
toastVars ==
  <<warningShown, toastNodes, animationStyles, hideTimers, removeTimers>>
auxVars == <<helperGlobals, markerVars, toastVars>>
vars == <<envVars, setupVars, objVars, intervalVars, auxVars>>

\* ------------------------------------------------------------------ helpers
Dec(n) == IF n > 0 THEN n - 1 ELSE 0

BothLow(h, w) == h < LowThreshold /\ w < LowThreshold

\* the object and the part of the document it writes, as one record; the
\* last four fields belong to the running callback: the flags of its event,
\* whether it called handleDevToolsDetected, whether a TypeError ended it
This ==
  [isDevToolsOpen |-> isDevToolsOpen,
   protectionActive |-> protectionActive,
   consoleSpamInterval |-> consoleSpamInterval,
   spamTasks |-> spamTasks,
   overlays |-> overlays,
   activeStyles |-> activeStyles,
   bodyClass |-> bodyClass,
   bodyFilter |-> bodyFilter,
   bodyOpacity |-> bodyOpacity,
   bodyPointerEvents |-> bodyPointerEvents,
   rechecks |-> rechecks,
   redirects |-> redirects,
   body |-> docPhase # "head",
   defaultPrevented |-> FALSE,
   propagationStopped |-> FALSE,
   reported |-> FALSE,
   threw |-> FALSE]

\* constructor, lines 5-9, before initImmediate, on a document in phase p
Fresh(p) ==
  [isDevToolsOpen |-> FALSE,
   protectionActive |-> FALSE,
   consoleSpamInterval |-> 0,
   spamTasks |-> 0,
   overlays |-> 0,
   activeStyles |-> 0,
   bodyClass |-> FALSE,
   bodyFilter |-> "",
   bodyOpacity |-> "",
   bodyPointerEvents |-> "",
   rechecks |-> {},
   redirects |-> 0,
   body |-> p # "head",
   defaultPrevented |-> FALSE,
   propagationStopped |-> FALSE,
   reported |-> FALSE,
   threw |-> FALSE]


\* ------------------------------------------------------------------ methods
\* mutant: the early return of line 389 is missing
startConsoleSpam_NoGuard(s) ==
  [s EXCEPT !.consoleSpamInterval = 1, !.spamTasks = @ + 1]

startConsoleSpam(s) ==
  IF s.consoleSpamInterval # 0 THEN s
  ELSE [s EXCEPT !.consoleSpamInterval = 1, !.spamTasks = @ + 1]

applyVisualRestrictions(s) == [s EXCEPT !.activeStyles = @ + 1]

activateProtection(s) ==
  IF s.protectionActive THEN s
  ELSE LET s1 == [s EXCEPT !.protectionActive = TRUE]
       IN IF ~s1.body THEN [s1 EXCEPT !.threw = TRUE]
          ELSE applyVisualRestrictions(
                 startConsoleSpam([s1 EXCEPT !.bodyClass = TRUE]))

\* mutant: the lookup of line 440 never finds the overlay
showProtectionOverlay_NoCheck(s) ==
  IF ~s.body THEN [s EXCEPT !.threw = TRUE]
  ELSE [s EXCEPT !.overlays = @ + 1]

showProtectionOverlay(s) ==
  IF s.overlays > 0 THEN s
  ELSE IF ~s.body THEN [s EXCEPT !.threw = TRUE]
  ELSE [s EXCEPT !.overlays = @ + 1]

\* mutant: the early return of line 417 is missing
handleDevToolsDetected_NoGuard(s) ==
  LET s0 == [s EXCEPT !.reported = TRUE]
      s1 == activateProtection([s0 EXCEPT !.isDevToolsOpen = TRUE])
      s2 == IF s1.threw THEN s1 ELSE showProtectionOverlay(s1)
  IN IF s2.threw THEN s2
     ELSE [s2 EXCEPT !.bodyFilter = "blur(8px)",
                     !.bodyOpacity = "0.3",
                     !.bodyPointerEvents = "none",
                     !.redirects = @ + 1]

handleDevToolsDetected(s) ==
  LET s0 == [s EXCEPT !.reported = TRUE]
  IN IF s0.isDevToolsOpen THEN s0
     ELSE LET s1 == activateProtection([s0 EXCEPT !.isDevToolsOpen = TRUE])
              s2 == IF s1.threw THEN s1 ELSE showProtectionOverlay(s1)
          IN IF s2.threw THEN s2
             ELSE [s2 EXCEPT !.bodyFilter = "blur(8px)",
                             !.bodyOpacity = "0.3",
                             !.bodyPointerEvents = "none",
                             !.redirects = @ + 1]

\* mutant: the inline filter is not reset (line 381 missing)
deactivateProtection_KeepsFilter(s) ==
  LET s1 == [s EXCEPT !.protectionActive = FALSE, !.isDevToolsOpen = FALSE]
  IN IF ~s1.body THEN [s1 EXCEPT !.threw = TRUE]
     ELSE [s1 EXCEPT !.bodyClass = FALSE,
                     !.activeStyles = Dec(@),
                     !.overlays = Dec(@),
                     !.spamTasks =
                        IF s1.consoleSpamInterval # 0 THEN Dec(@) ELSE @,
                     !.consoleSpamInterval = 0,
                     !.bodyPointerEvents = "",
                     !.bodyOpacity = ""]

\* mutant: the overlay is not removed (lines 369-372 missing)
deactivateProtection_LeavesOverlay(s) ==
  LET s1 == [s EXCEPT !.protectionActive = FALSE, !.isDevToolsOpen = FALSE]
  IN IF ~s1.body THEN [s1 EXCEPT !.threw = TRUE]
     ELSE [s1 EXCEPT !.bodyClass = FALSE,
                     !.activeStyles = Dec(@),
                     !.spamTasks =
                        IF s1.consoleSpamInterval # 0 THEN Dec(@) ELSE @,
                     !.consoleSpamInterval = 0,
                     !.bodyFilter = "",
                     !.bodyPointerEvents = "",
                     !.bodyOpacity = ""]

\* mutant: the active-protection style is not removed (lines 364-367 missing)
deactivateProtection_KeepsStyle(s) ==
  LET s1 == [s EXCEPT !.protectionActive = FALSE, !.isDevToolsOpen = FALSE]
  IN IF ~s1.body THEN [s1 EXCEPT !.threw = TRUE]
     ELSE [s1 EXCEPT !.bodyClass = FALSE,
                     !.overlays = Dec(@),
                     !.spamTasks =
                        IF s1.consoleSpamInterval # 0 THEN Dec(@) ELSE @,
                     !.consoleSpamInterval = 0,
                     !.bodyFilter = "",
                     !.bodyPointerEvents = "",
                     !.bodyOpacity = ""]

\* mutant: protectionActive is not reset (line 358 missing)
deactivateProtection_KeepsActive(s) ==
  LET s1 == [s EXCEPT !.isDevToolsOpen = FALSE]
  IN IF ~s1.body THEN [s1 EXCEPT !.threw = TRUE]
     ELSE [s1 EXCEPT !.bodyClass = FALSE,
                     !.activeStyles = Dec(@),
                     !.overlays = Dec(@),
                     !.spamTasks =
                        IF s1.consoleSpamInterval # 0 THEN Dec(@) ELSE @,
                     !.consoleSpamInterval = 0,
                     !.bodyFilter = "",
                     !.bodyPointerEvents = "",
                     !.bodyOpacity = ""]

deactivateProtection(s) ==
  LET s1 == [s EXCEPT !.protectionActive = FALSE, !.isDevToolsOpen = FALSE]
  IN IF ~s1.body THEN [s1 EXCEPT !.threw = TRUE]
     ELSE [s1 EXCEPT !.bodyClass = FALSE,
                     !.activeStyles = Dec(@),
                     !.overlays = Dec(@),
                     !.spamTasks =
                        IF s1.consoleSpamInterval # 0 THEN Dec(@) ELSE @,
                     !.consoleSpamInterval = 0,
                     !.bodyFilter = "",
                     !.bodyPointerEvents = "",
                     !.bodyOpacity = ""]

\* the setTimeout of checkIfReallyClosed; lowAtSched and lowSince record the
\* gaps measured by detectByWindowSize when and since it was scheduled, and
\* stale whether a deactivation has happened since
checkIfReallyClosed(s, h, w) ==
  [s EXCEPT !.rechecks =
     @ \cup {[t |-> RecheckDelay, lowAtSched |-> BothLow(h, w),
              lowSince |-> TRUE, stale |-> FALSE]}]

\* a deactivation ends the episode: no pending timeout is cleared (lines
\* 357-386), each one is now left over from an earlier episode
EpisodeEnded(s) ==
  [s EXCEPT !.rechecks = {[r EXCEPT !.stale = TRUE] : r \in @}]

\* mutant: the comparison of line 244 is the wrong way round
recheckCallback_Inverted(s, h, w) ==
  IF h > RecheckThreshold /\ w > RecheckThreshold
  THEN EpisodeEnded(deactivateProtection(s)) ELSE s

\* the callback of that timeout
recheckCallback(s, h, w) ==
  IF h < RecheckThreshold /\ w < RecheckThreshold
  THEN EpisodeEnded(deactivateProtection(s)) ELSE s

\* mutant: line 178 schedules the re-check without comparing the gaps
detectByWindowSize_NoLowCheck(s, h, w) ==
  IF h > HighThreshold \/ w > HighThreshold
  THEN IF ~s.isDevToolsOpen THEN handleDevToolsDetected(s) ELSE s
  ELSE IF s.isDevToolsOpen
  THEN checkIfReallyClosed(s, h, w)
  ELSE s

\* mutant: line 178 joins the two comparisons with || instead of &&
detectByWindowSize_EitherLow(s, h, w) ==
  IF h > HighThreshold \/ w > HighThreshold
  THEN IF ~s.isDevToolsOpen THEN handleDevToolsDetected(s) ELSE s
  ELSE IF s.isDevToolsOpen /\ (h < LowThreshold \/ w < LowThreshold)
  THEN checkIfReallyClosed(s, h, w)
  ELSE s

detectByWindowSize(s, h, w) ==
  IF h > HighThreshold \/ w > HighThreshold
  THEN IF ~s.isDevToolsOpen THEN handleDevToolsDetected(s) ELSE s
  ELSE IF s.isDevToolsOpen /\ h < LowThreshold /\ w < LowThreshold
  THEN checkIfReallyClosed(s, h, w)
  ELSE s

\* mutant: the console probe deactivates when it sees the console closed
detectByConsole_Closes(s, opened) ==
  IF opened /\ ~s.isDevToolsOpen THEN handleDevToolsDetected(s)
  ELSE IF ~opened /\ s.isDevToolsOpen THEN deactivateProtection(s)
  ELSE s

detectByConsole(s, opened) ==
  IF opened /\ ~s.isDevToolsOpen THEN handleDevToolsDetected(s) ELSE s

detectByTiming(s, paused) ==
  IF paused /\ ~s.isDevToolsOpen THEN handleDevToolsDetected(s) ELSE s

detectExistingDevTools(s, h, w, opened, paused) ==
  IF h > LoadThreshold \/ w > LoadThreshold THEN handleDevToolsDetected(s)
  ELSE LET s1 == IF opened THEN handleDevToolsDetected(s) ELSE s
       IN IF s1.threw THEN s1
          ELSE IF paused THEN handleDevToolsDetected(s1) ELSE s1

\* the keydown listener's test, lines 75-121
keydownBlocked(e) ==
  \/ e.key = "F12"
  \/ e.ctrlKey /\ e.shiftKey /\ e.key = "I"
  \/ e.ctrlKey /\ e.shiftKey /\ e.key = "J"
  \/ e.ctrlKey /\ e.shiftKey /\ e.key = "C"
  \/ e.ctrlKey /\ e.key = "u"
  \/ e.ctrlKey /\ e.shiftKey /\ e.key = "K"
  \/ e.ctrlKey /\ e.shiftKey /\ e.key = "E"
  \/ e.ctrlKey /\ e.shiftKey /\ e.key = "S"
  \/ e.metaKey /\ e.altKey /\ e.key = "I"

\* ---------------------------------------------------------------- listeners
\* mutant: stopPropagation (line 123) is missing
keydownListener_NoStop(s, e) ==
  IF keydownBlocked(e)
  THEN handleDevToolsDetected([s EXCEPT !.defaultPrevented = TRUE])
  ELSE s

keydownListener(s, e) ==
  IF keydownBlocked(e)
  THEN handleDevToolsDetected(
         [s EXCEPT !.defaultPrevented = TRUE, !.propagationStopped = TRUE])
  ELSE s

contextmenuListener(s) ==
  handleDevToolsDetected(
    [s EXCEPT !.defaultPrevented = TRUE, !.propagationStopped = TRUE])

\* the only mousedown listener that is registered (line 138): the one of
\* preventInspection belongs to the setupAdvancedProtection of line 250,
\* which the definition of line 522 replaces
mousedownListener(s, e) ==
  IF e.button = 1 THEN [s EXCEPT !.defaultPrevented = TRUE] ELSE s

dragstartListener(s, isImg) ==
  IF s.protectionActive \/ isImg THEN [s EXCEPT !.defaultPrevented = TRUE]
  ELSE s

copyListener(s) ==
  IF s.protectionActive THEN [s EXCEPT !.defaultPrevented = TRUE] ELSE s

keyupListener(s, key) ==
  IF key = "PrintScreen" THEN handleDevToolsDetected(s) ELSE s

\* the callback of the console-spam interval, lines 391-413
consoleSpamCallback(s) ==
  IF ~s.protectionActive
  THEN [s EXCEPT !.spamTasks = IF s.consoleSpamInterval # 0 THEN Dec(@) ELSE @,
                 !.consoleSpamInterval = 0]
  ELSE s

\* --------------------------------------------------------------------- Init
Init ==
  \E p \in {"head", "body", "ready"}, h \in HeightValues, w \in WidthValues,
     opened \in BOOLEAN, paused \in BOOLEAN :
    LET s == detectExistingDevTools(Fresh(p), h, w, opened, paused)
        ok == ~s.threw
    IN /\ heightDiff = h
       /\ widthDiff = w
       /\ consoleOpened = opened
       /\ debuggerPaused = paused
       /\ docPhase = p
       /\ installed = ok
       /\ advancedListeners = (ok /\ p = "ready")
       /\ comprehensiveStyles = IF ok /\ p = "ready" THEN 1 ELSE 0
       /\ isDevToolsOpen = s.isDevToolsOpen
       /\ protectionActive = s.protectionActive
       /\ consoleSpamInterval = s.consoleSpamInterval
       /\ spamTasks = s.spamTasks
       /\ overlays = s.overlays
       /\ activeStyles = s.activeStyles
       /\ bodyClass = s.bodyClass
       /\ bodyFilter = s.bodyFilter
       /\ bodyOpacity = s.bodyOpacity
       /\ bodyPointerEvents = s.bodyPointerEvents
       /\ sizeT = IF ok THEN SizeInterval ELSE 0
       /\ consoleT = IF ok THEN ConsoleInterval ELSE 0
       /\ timingT = IF ok THEN TimingInterval ELSE 0
       /\ rechecks = s.rechecks
       /\ redirects = s.redirects
       /\ helperGlobals = FALSE
       /\ inspectT = IF ok THEN InspectionInterval ELSE 0
       /\ markerNodes = 0
       /\ markerTimers = {}
       /\ warningShown = FALSE
       /\ toastNodes = 0
       /\ animationStyles = 0
       /\ hideTimers = {}
       /\ removeTimers = {}

\* ------------------------------------------------------------------ actions
\* the state a callback leaves behind
Commit(s) ==
  /\ s.redirects <= MaxRedirect
  /\ isDevToolsOpen' = s.isDevToolsOpen
  /\ protectionActive' = s.protectionActive
  /\ consoleSpamInterval' = s.consoleSpamInterval
  /\ spamTasks' = s.spamTasks
  /\ overlays' = s.overlays
  /\ activeStyles' = s.activeStyles
  /\ bodyClass' = s.bodyClass
  /\ bodyFilter' = s.bodyFilter
  /\ bodyOpacity' = s.bodyOpacity
  /\ bodyPointerEvents' = s.bodyPointerEvents
  /\ rechecks' = s.rechecks
  /\ redirects' = s.redirects

\* an event handler ran: timers and environment are as before
Dispatch(s) ==
  /\ Commit(s)
  /\ UNCHANGED <<envVars, setupVars, auxVars, intervalVars>>

\* the user resizes the window or docks/undocks a panel
Resize ==
  /\ \/ \E h \in HeightValues \ {heightDiff} :
          heightDiff' = h /\ widthDiff' = widthDiff
     \/ \E w \in WidthValues \ {widthDiff} :
          widthDiff' = w /\ heightDiff' = heightDiff
  /\ UNCHANGED <<consoleOpened, debuggerPaused, docPhase, setupVars, auxVars,
                 objVars, intervalVars>>

ConsoleToggle ==
  /\ consoleOpened' = ~consoleOpened
  /\ UNCHANGED <<heightDiff, widthDiff, debuggerPaused, docPhase, setupVars,
                 auxVars, objVars, intervalVars>>

DebuggerToggle ==
  /\ debuggerPaused' = ~debuggerPaused
  /\ UNCHANGED <<heightDiff, widthDiff, consoleOpened, docPhase, setupVars,
                 auxVars, objVars, intervalVars>>

\* the parser creates document.body
BodyParsed ==
  /\ docPhase = "head"
  /\ docPhase' = "body"
  /\ UNCHANGED <<heightDiff, widthDiff, consoleOpened, debuggerPaused,
                 setupVars, auxVars, objVars, intervalVars>>

\* DOMContentLoaded: the listener of line 27 calls setupAdvancedProtection
\* (the definition of line 522)
DOMContentLoaded ==
  /\ docPhase = "body"
  /\ docPhase' = "ready"
  /\ installed' = installed
  /\ advancedListeners' = installed
  /\ comprehensiveStyles' =
       IF installed THEN comprehensiveStyles + 1 ELSE comprehensiveStyles
  /\ UNCHANGED <<heightDiff, widthDiff, consoleOpened, debuggerPaused,
                 objVars, intervalVars, auxVars>>

\* every pending re-check learns what this tick measured
Measured(s, h, w) ==
  [s EXCEPT !.rechecks =
     {[r EXCEPT !.lowSince = @ /\ BothLow(h, w)] : r \in @}]

SizeTick ==
  /\ installed
  /\ sizeT = 0
  /\ Commit(detectByWindowSize(Measured(This, heightDiff, widthDiff),
                               heightDiff, widthDiff))
  /\ sizeT' = SizeInterval
  /\ UNCHANGED <<envVars, setupVars, auxVars, consoleT, timingT>>

ConsoleTick ==
  /\ installed
  /\ consoleT = 0
  /\ Commit(detectByConsole(This, consoleOpened))
  /\ consoleT' = ConsoleInterval
  /\ UNCHANGED <<envVars, setupVars, auxVars, sizeT, timingT>>

TimingTick ==
  /\ installed
  /\ timingT = 0
  /\ Commit(detectByTiming(This, debuggerPaused))
  /\ timingT' = TimingInterval
  /\ UNCHANGED <<envVars, setupVars, auxVars, sizeT, consoleT>>

RecheckTimeout ==
  \E r \in rechecks :
    /\ r.t = 0
    /\ Dispatch(recheckCallback([This EXCEPT !.rechecks = @ \ {r}],
                                heightDiff, widthDiff))

\* the 5000ms timeout of handleDevToolsDetected; its body is commented out
RedirectTimeout ==
  /\ redirects > 0
  /\ Dispatch([This EXCEPT !.redirects = @ - 1])

ConsoleSpamTick ==
  /\ spamTasks > 0
  /\ Dispatch(consoleSpamCallback(This))

\* time passes until the next timer is due
Remaining == {sizeT, consoleT, timingT} \cup {r.t : r \in rechecks}
Earliest == CHOOSE d \in Remaining : \A x \in Remaining : d <= x

Advance ==
  /\ installed
  /\ Earliest > 0
  /\ sizeT' = sizeT - Earliest
  /\ consoleT' = consoleT - Earliest
  /\ timingT' = timingT - Earliest
  /\ rechecks' = {[r EXCEPT !.t = @ - Earliest] : r \in rechecks}
  /\ UNCHANGED <<envVars, setupVars, auxVars, flagVars, spamVars, domVars,
                 redirects>>

KeyDown(e) == installed /\ Dispatch(keydownListener(This, e))

ContextMenu == installed /\ Dispatch(contextmenuListener(This))

MouseDown(e) == installed /\ Dispatch(mousedownListener(This, e))

DragStart(isImg) ==
  advancedListeners /\ Dispatch(dragstartListener(This, isImg))

Copy == advancedListeners /\ Dispatch(copyListener(This))

KeyUp(key) == advancedListeners /\ Dispatch(keyupListener(This, key))

Environment ==
  \/ Resize
  \/ ConsoleToggle
  \/ DebuggerToggle
  \/ DOMContentLoaded

Timers ==
  \/ SizeTick
  \/ ConsoleTick
  \/ TimingTick
  \/ RecheckTimeout
  \/ RedirectTimeout
  \/ ConsoleSpamTick
  \/ Advance

Gestures ==
  \/ \E e \in TypedKeys : KeyDown(e)
  \/ ContextMenu
  \/ \E e \in MouseEvents : MouseDown(e)
  \/ \E isImg \in BOOLEAN : DragStart(isImg)
  \/ Copy
  \/ \E key \in {"PrintScreen", "a"} : KeyUp(key)

\* ------------------------------------------------------ global-symbol probe
\* a console session or a script of the page defines, or deletes, one of the
\* helper names on window.  blockCommonBypassMethods (lines 291-311), which
\* would poll them every 2000ms, is called only by the setupAdvancedProtection
\* of line 250; the class defines that method again at line 522 and the later
\* definition is the one that runs, so the interval is never created and no
\* callback reads helperGlobals.
HelperToggle ==
  /\ helperGlobals' = ~helperGlobals
  /\ UNCHANGED <<envVars, setupVars, objVars, intervalVars, markerVars,
                 toastVars>>

\* ----------------------------------------------------------- mutation probe
MarkerState ==
  [body |-> docPhase # "head",
   markerNodes |-> markerNodes,
   markerTimers |-> markerTimers]

\* lines 213-236: appendChild on a null body throws before the observer and
\* the timeout are created
detectElementInspection(m) ==
  IF ~m.body THEN m
  ELSE [m EXCEPT !.markerNodes = @ + 1,
                 !.markerTimers = @ \cup {CleanupDelay}]

\* mutant: the timeout neither disconnects nor removes (lines 231-234 missing)
cleanupCallback_KeepsNode(m) == m

\* the callback of the clean-up timeout, lines 230-235
cleanupCallback(m) == [m EXCEPT !.markerNodes = Dec(@)]

CommitMarkers(m) ==
  /\ markerNodes' = m.markerNodes
  /\ markerTimers' = m.markerTimers
  /\ UNCHANGED <<envVars, setupVars, objVars, intervalVars, helperGlobals,
                 toastVars>>

InspectionTick ==
  /\ installed
  /\ inspectT = 0
  /\ inspectT' = InspectionInterval
  /\ CommitMarkers(detectElementInspection(MarkerState))

CleanupTimeout ==
  /\ 0 \in markerTimers
  /\ inspectT' = inspectT
  /\ CommitMarkers(
       cleanupCallback([MarkerState EXCEPT !.markerTimers = @ \ {0}]))

\* the inspector edits an attribute of a test element: the observer callback
\* of lines 219-225
MarkerMutated ==
  /\ markerNodes > 0
  /\ Dispatch(handleDevToolsDetected(This))

MarkerRemaining == {inspectT} \cup markerTimers
MarkerEarliest ==
  CHOOSE d \in MarkerRemaining : \A x \in MarkerRemaining : d <= x

AdvanceMarkers ==
  /\ installed
  /\ MarkerEarliest > 0
  /\ inspectT' = inspectT - MarkerEarliest
  /\ markerTimers' = {x - MarkerEarliest : x \in markerTimers}
  /\ UNCHANGED <<envVars, setupVars, objVars, intervalVars, helperGlobals,
                 markerNodes, toastVars>>

\* ------------------------------------------------------------ warning toast
ToastState ==
  [body |-> docPhase # "head",
   warningShown |-> warningShown,
   toastNodes |-> toastNodes,
   animationStyles |-> animationStyles,
   hideTimers |-> hideTimers,
   removeTimers |-> removeTimers]

\* lines 605-650
showWarning(w) ==
  IF w.warningShown THEN w
  ELSE LET w1 == [w EXCEPT !.warningShown = TRUE]
       IN IF ~w1.body THEN w1
          ELSE [w1 EXCEPT !.toastNodes = @ + 1,
                          !.animationStyles = @ + 1,
                          !.hideTimers = @ \cup {WarningDuration}]

\* the callback of the 4000ms timeout, lines 640-649
hideCallback(w) ==
  [w EXCEPT !.removeTimers =
              IF w.toastNodes > 0 THEN @ \cup {WarningFadeOut} ELSE @,
            !.warningShown = FALSE,
            !.animationStyles = Dec(@)]

\* the callback of the 400ms timeout, line 643
removeCallback(w) == [w EXCEPT !.toastNodes = Dec(@)]

\* lines 586-590
beforeprintListener(w) == showWarning(w)

CommitToast(w) ==
  /\ warningShown' = w.warningShown
  /\ toastNodes' = w.toastNodes
  /\ animationStyles' = w.animationStyles
  /\ hideTimers' = w.hideTimers
  /\ removeTimers' = w.removeTimers
  /\ UNCHANGED <<envVars, setupVars, objVars, intervalVars, helperGlobals,
                 markerVars>>

BeforePrint ==
  /\ advancedListeners
  /\ CommitToast(beforeprintListener(ToastState))

HideTimeout ==
  /\ 0 \in hideTimers
  /\ CommitToast(hideCallback([ToastState EXCEPT !.hideTimers = @ \ {0}]))

RemoveTimeout ==
  /\ 0 \in removeTimers
  /\ CommitToast(removeCallback([ToastState EXCEPT !.removeTimers = @ \ {0}]))

ToastRemaining == hideTimers \cup removeTimers
ToastEarliest == CHOOSE d \in ToastRemaining : \A x \in ToastRemaining : d <= x

AdvanceToast ==
  /\ ToastRemaining # {}
  /\ ToastEarliest > 0
  /\ hideTimers' = {x - ToastEarliest : x \in hideTimers}
  /\ removeTimers' = {x - ToastEarliest : x \in removeTimers}
  /\ UNCHANGED <<envVars, setupVars, objVars, intervalVars, helperGlobals,
                 markerVars, warningShown, toastNodes, animationStyles>>

\* ------------------------------------------------------------ specifications
Next == Environment \/ BodyParsed \/ Timers \/ Gestures

Spec == Init /\ [][Next]_vars

\* the page with document.body available when the script is loaded
InitBody == Init /\ docPhase # "head"

NextBody == Environment \/ Timers \/ Gestures

SpecBody == InitBody /\ [][NextBody]_vars

\* the loaded page under the event loop's scheduling: a due timer callback
\* runs, and time passes when none is due
InitLive == Init /\ docPhase = "ready"

Timed == SizeTick \/ ConsoleTick \/ TimingTick \/ RecheckTimeout \/ Advance

NextLive ==
  \/ Resize
  \/ ConsoleToggle
  \/ DebuggerToggle
  \/ Timers
  \/ Gestures

SpecLive == InitLive /\ [][NextLive]_vars /\ WF_vars(Timed)

\* the loaded page while helper names come and go on window
NextProbe == NextLive \/ HelperToggle

SpecProbe == InitLive /\ [][NextProbe]_vars /\ WF_vars(Timed)

\* the mutation probe: its interval, its test elements and their clean-up
\* timeouts share no state with the other timers
NextMarkers ==
  \/ BodyParsed
  \/ DOMContentLoaded
  \/ InspectionTick
  \/ CleanupTimeout
  \/ AdvanceMarkers
  \/ MarkerMutated
  \/ RedirectTimeout

SpecMarkers == Init /\ [][NextMarkers]_vars

\* the print listener and the toast of showWarning, which no other code
\* reads or writes
NextToast ==
  \/ BodyParsed
  \/ DOMContentLoaded
  \/ BeforePrint
  \/ HideTimeout
  \/ RemoveTimeout
  \/ AdvanceToast

SpecToast == Init /\ [][NextToast]_vars

\* ------------------------------------------------------------------- states
\* section 4.3 of the specification: belief open and restrictions applied
Detected == isDevToolsOpen /\ overlays = 1

Idle == ~isDevToolsOpen /\ overlays = 0

GapsLow == heightDiff < LowThreshold /\ widthDiff < LowThreshold

GapHigh == heightDiff > HighThreshold \/ widthDiff > HighThreshold

\* a step whose callback calls handleDevToolsDetected
DetectionSignal ==
  \/ \E e \in TypedKeys : keydownBlocked(e) /\ KeyDown(e)
  \/ ContextMenu
  \/ KeyUp("PrintScreen")
  \/ SizeTick /\ GapHigh /\ ~isDevToolsOpen
  \/ ConsoleTick /\ consoleOpened /\ ~isDevToolsOpen
  \/ TimingTick /\ debuggerPaused /\ ~isDevToolsOpen

\* a step in which a re-check timeout fires and calls deactivateProtection
Deactivation ==
  /\ RecheckTimeout
  /\ heightDiff < RecheckThreshold
  /\ widthDiff < RecheckThreshold

\* ------------------------------------------------------------------- claims
\* C1: in every reachable state the document holds at most one overlay node,
\* and calling showProtectionOverlay in that state adds none to one present.
C1_AtMostOneOverlay ==
  /\ overlays <= 1
  /\ showProtectionOverlay(This).overlays <= 1
  /\ overlays = 1 => showProtectionOverlay(This) = This

\* C1 witness: Detected with the overlay shown, a re-check due and an earlier
\* detection's timeout still pending.
C1_Witness ==
  /\ overlays = 1
  /\ isDevToolsOpen
  /\ redirects > 0
  /\ \E r \in rechecks : r.t = 0

\* C2: a window-size probe tick that measures a gap above 150 leaves the
\* belief open, exactly one overlay and the body filter blur(8px), whatever
\* the state before the tick.
C2_HighGapTickDetects ==
  [][(SizeTick /\ GapHigh) =>
       (isDevToolsOpen' /\ overlays' = 1 /\ bodyFilter' = "blur(8px)")]_vars

\* C3: once Detected, if from some point on both gaps stay below 100 and no
\* detection signal arrives, the system eventually is Idle (belief closed,
\* overlay absent) and stays Idle.
C3_EventuallyIdle ==
  (/\ <>Detected
   /\ <>[]GapsLow
   /\ <>[][~DetectionSignal]_vars) => <>[]Idle

\* C3 witness: Detected, both gaps low, a re-check scheduled by the probe.
C3_Witness == Detected /\ GapsLow /\ rechecks # {}

\* C4: while the belief is open, handleDevToolsDetected changes no field of
\* the object, no node, no style and no timer; and every step that leaves the
\* belief open leaves the flags, the console-spam timer, the overlay, the
\* styles and the body as they are and starts no timeout of line 431.
C4_DetectedIsNoOp ==
  /\ [](isDevToolsOpen =>
          handleDevToolsDetected(This) = [This EXCEPT !.reported = TRUE])
  /\ [][(isDevToolsOpen /\ isDevToolsOpen') =>
          (/\ UNCHANGED <<protectionActive, spamVars, domVars>>
           /\ redirects' <= redirects)]_vars

\* C4 witness: Detected with room for a second timeout of line 431, so that a
\* repeated detection that was not ignored would show.
C4_Witness == Detected /\ protectionActive /\ redirects < MaxRedirect

\* C5: at most one console-spam interval runs, the handle is set exactly
\* when one runs, startConsoleSpam changes nothing while one runs, and
\* deactivateProtection leaves the timers alone when none runs.
C5_OneSpamTask ==
  /\ spamTasks <= 1
  /\ (consoleSpamInterval # 0) <=> (spamTasks = 1)
  /\ spamTasks > 0 => startConsoleSpam(This) = This
  /\ spamTasks = 0 =>
       /\ deactivateProtection(This).spamTasks = 0
       /\ deactivateProtection(This).consoleSpamInterval = 0
  /\ startConsoleSpam(startConsoleSpam(This)).spamTasks = 1

\* C5 witness: the console-spam interval is running.
C5_Witness == spamTasks = 1 /\ consoleSpamInterval # 0 /\ protectionActive

\* what deactivateProtection promises of the state s it returns
Cleared(s) ==
  /\ s.overlays = 0
  /\ s.activeStyles = 0
  /\ s.bodyFilter = ""
  /\ s.bodyOpacity = ""
  /\ s.bodyPointerEvents = ""
  /\ ~s.bodyClass
  /\ s.spamTasks = 0
  /\ s.consoleSpamInterval = 0
  /\ ~s.isDevToolsOpen
  /\ ~s.protectionActive

\* C6: deactivateProtection, run in any reachable state, leaves no overlay,
\* no active-protection style, no inline filter, opacity or pointer-events,
\* no protection-active class, no console-spam interval, and both flags false.
C6_DeactivationClearsAll == Cleared(deactivateProtection(This))

\* C6 witness: Detected with every restriction applied, for deactivation to
\* clear.
C6_Witness ==
  /\ Detected
  /\ activeStyles = 1
  /\ bodyClass
  /\ bodyFilter = "blur(8px)"
  /\ spamTasks = 1

\* a listener returned s: the default action is cancelled and the belief open
Suppressed(s) == s.defaultPrevented /\ s.isDevToolsOpen

\* C7: every intercepted gesture, in any state, has its default action
\* cancelled and leaves the belief open.
C7_EveryGestureSuppressed ==
  /\ installed =>
       /\ \A e \in KeyEvents :
            keydownBlocked(e) => Suppressed(keydownListener(This, e))
       /\ Suppressed(contextmenuListener(This))
       /\ Suppressed(mousedownListener(This, [button |-> 1, ctrlKey |-> FALSE]))
       /\ Suppressed(mousedownListener(This, [button |-> 0, ctrlKey |-> TRUE]))
  /\ advancedListeners =>
       /\ Suppressed(keyupListener(This, "PrintScreen"))
       /\ Suppressed(copyListener(This))
       /\ Suppressed(dragstartListener(This, TRUE))

\* C8: the belief goes from open to closed only in a re-check timeout that
\* measures both gaps below 100, and such a timeout closes it whatever the
\* console and the debugger probes would read.
C8_OnlyRecheckCloses ==
  /\ [][(isDevToolsOpen /\ ~isDevToolsOpen') => Deactivation]_vars
  /\ [][Deactivation => ~isDevToolsOpen']_vars

\* C8 witness: Detected, a re-check due, both gaps low, and the console probe
\* and the timing probe both reading open.
C8_Witness ==
  /\ Detected
  /\ GapsLow
  /\ consoleOpened
  /\ debuggerPaused
  /\ \E r \in rechecks : r.t = 0

\* the re-check timeout r fires in this step
Fires(r) ==
  /\ r \in rechecks
  /\ r.t = 0
  /\ {q.t : q \in rechecks'} = {q.t : q \in rechecks} \ {0}

\* C9, as claimed: the belief closes only when the gaps were below 100 at
\* the tick that scheduled the re-check, at every tick since, and when the
\* timeout fires.
C9_LowThroughoutDelay ==
  [][(isDevToolsOpen /\ ~isDevToolsOpen') =>
       \E r \in rechecks :
         Fires(r) /\ r.lowAtSched /\ r.lowSince /\ GapsLow]_vars

\* C9, amended: the belief closes only when the gaps were below 100 at the
\* tick that scheduled the re-check and when its timeout fires.
C9_LowAtScheduleAndFire ==
  [][(isDevToolsOpen /\ ~isDevToolsOpen') =>
       \E r \in rechecks : Fires(r) /\ r.lowAtSched /\ GapsLow]_vars

\* C9 witness: a re-check is due with both gaps low, after a tick in between
\* measured a gap of 100 or more.
C9_Witness ==
  /\ isDevToolsOpen
  /\ GapsLow
  /\ \E r \in rechecks : r.t = 0 /\ r.lowAtSched /\ ~r.lowSince

C12_FailureLeavesPriorState ==
  LET s == handleDevToolsDetected(This)
  IN s.threw =>
       /\ s.isDevToolsOpen = isDevToolsOpen
       /\ s.protectionActive = protectionActive
       /\ s.overlays = overlays
       /\ s.activeStyles = activeStyles
       /\ s.spamTasks = spamTasks
       /\ s.redirects = redirects

ClaimedCombination(e) ==
  \/ e.key = "F12"
  \/ e.ctrlKey /\ e.shiftKey /\ e.key \in {"I", "J", "C", "K", "E", "S"}
  \/ e.ctrlKey /\ e.key = "u"
  \/ e.metaKey /\ e.altKey /\ e.key = "I"

\* the listener returned s: preventDefault and stopPropagation were called
\* and the belief is open
Blocked(s) == s.defaultPrevented /\ s.propagationStopped /\ s.isDevToolsOpen

\* C15: in every state the keydown listener blocks each of the named
\* combinations and the contextmenu listener blocks every event; a keydown of
\* any other combination is not cancelled and changes nothing.
C15_ShortcutsBlocked ==
  /\ \A e \in KeyEvents :
       IF ClaimedCombination(e)
       THEN Blocked(keydownListener(This, e))
       ELSE keydownListener(This, e) = This
  /\ Blocked(contextmenuListener(This))

\* C15 witness: Detected with the listeners registered while no probe reads
\* open.
C15_Witness ==
  /\ installed
  /\ Detected
  /\ docPhase = "body"
  /\ ~GapHigh
  /\ ~consoleOpened
  /\ ~debuggerPaused

\* neither gap above 150, and at least one gap of 100 or more
InBand == ~GapHigh /\ ~GapsLow

\* C16: in the hysteresis band detectByWindowSize changes nothing and
\* schedules nothing; a re-check timeout that measures a gap of 100 or more
\* changes nothing; and no step taken in the band ends Detected.
C16_HysteresisBand ==
  /\ [](InBand =>
          detectByWindowSize(This, heightDiff, widthDiff) = This)
  /\ [](~GapsLow => recheckCallback(This, heightDiff, widthDiff) = This)
  /\ [][(Detected /\ InBand) => Detected']_vars

\* C16 witness: Detected in the band with a re-check due.
C16_Witness == Detected /\ InBand /\ \E r \in rechecks : r.t = 0

\* C17: the step that takes Detected to Idle is the firing of a re-check
\* timeout that was scheduled after the latest deactivation.
C17_NoStaleRecheckCloses ==
  [][(Detected /\ Idle') =>
       \E r \in rechecks : Fires(r) /\ ~r.stale]_vars

\* C18: with document.body available, protectionActive equals isDevToolsOpen.
C18_FlagsAgree == protectionActive = isDevToolsOpen

\* C18 witness: both flags false again after a detection, with a re-check of
\* that episode still pending.
C18_Witness ==
  /\ ~isDevToolsOpen
  /\ ~protectionActive
  /\ redirects > 0
  /\ rechecks # {}

\* C11: whenever the system is Idle and a helper name is a function on
\* window, the system later is Detected (the claim: at the next probe tick,
\* within 2000ms) or the name has gone.
C11_HelperGlobalsDetected ==
  (Idle /\ helperGlobals) ~> (Detected \/ ~helperGlobals)

\* C13: at most 7 test elements are attached, each has its clean-up timeout
\* pending and due within 10000ms, and that timeout removes one.
C13_MarkersBounded ==
  /\ markerNodes <= 7
  /\ markerNodes = Cardinality(markerTimers)
  /\ \A x \in markerTimers : x <= CleanupDelay
  /\ markerNodes > 0 =>
       cleanupCallback(MarkerState).markerNodes = markerNodes - 1

\* C13 witness: seven test elements attached, the oldest about to be removed.
C13_Witness == markerNodes = 7 /\ 0 \in markerTimers

\* C19: at most one toast is in the document, warningShown is true exactly
\* while one is, and a print request while one is displayed adds none.
C19_OneToast ==
  /\ toastNodes <= 1
  /\ warningShown <=> toastNodes > 0
  /\ toastNodes > 0 =>
       beforeprintListener(ToastState).toastNodes = toastNodes

====
